---- MODULE Spec2Model ----
(***************************************************************************)
(* State-machine model of the ST7789 LCD panel driver                      *)
(* (components/esp_lcd/src/esp_lcd_panel_st7789.c).                         *)
(*                                                                         *)
(* One driver instance is followed through its life: esp_lcd_new_panel_    *)
(* st7789, any sequence of panel operations, panel_st7789_del.  Every      *)
(* operation is one action; what the operation did to the outside world    *)
(* (transport writes, delays, GPIO calls, heap calls) is recorded in       *)
(* `trace`, in call order, together with each call's result.               *)
(***************************************************************************)
EXTENDS Integers, Sequences, FiniteSets

VARIABLES
    phase,              \* "none" | "live" (handle returned) | "failed" | "deleted"
    reset_gpio_num,     \* st7789_panel_t fields
    reset_level,
    x_gap,
    y_gap,
    fb_bits_per_pixel,
    madctl_val,
    colmod_cal,
    cfg,                \* the arguments esp_lcd_new_panel_st7789 was called with
    last,               \* the most recent call: [op, arg, ret]
    trace,              \* external calls made by the most recent call, in order
    req,                \* arguments of the most recent Mirror, SwapXY and SetGap
    accepted,           \* last MADCTL byte the transport accepted, -1 if none
    pre,                \* madctl_val and accepted as they were before the most
                        \* recent call, kept when that call got a MADCTL write
                        \* accepted (-1, -1 otherwise)
    n_gpio_reset_pin,   \* gpio_reset_pin calls so far
    n_free              \* free calls so far

vars == <<phase, reset_gpio_num, reset_level, x_gap, y_gap, fb_bits_per_pixel,
          madctl_val, colmod_cal, cfg, last, trace, req, accepted, pre,
          n_gpio_reset_pin, n_free>>

----------------------------------------------------------------------------
(* Bounds of the model *)

MaxCoord == 300
MaxXGap == 3
MaxYGap == 5
ResetPin == 5
MaxFailures == 1        \* transport calls that fail within one operation

Windows == { <<0, 0, 10, 20>>, <<0, 0, 10, 10>>, <<10, 20, MaxCoord, MaxCoord>> }
Gaps == { <<0, 0>>, <<MaxXGap, MaxYGap>> }
Pins == {-1, ResetPin}

----------------------------------------------------------------------------
(* Controller command codes and MADCTL bits (esp_lcd_panel_commands.h) *)

LCD_CMD_SWRESET == 1
LCD_CMD_SLPOUT == 17
LCD_CMD_INVOFF == 32
LCD_CMD_INVON == 33
LCD_CMD_DISPOFF == 40
LCD_CMD_DISPON == 41
LCD_CMD_CASET == 42
LCD_CMD_RASET == 43
LCD_CMD_RAMWR == 44
LCD_CMD_MADCTL == 54
LCD_CMD_COLMOD == 58
LCD_CMD_BGR_BIT == 8
LCD_CMD_MV_BIT == 32
LCD_CMD_MX_BIT == 64
LCD_CMD_MY_BIT == 128

(* esp_err_t values the transport and gpio_config answer with *)
Outcomes == {"ESP_OK", "ESP_FAIL"}
GpioOutcomes == {"ESP_OK", "ESP_FAIL", "ESP_ERR_INVALID_ARG"}

(* uint8_t bit operations, for a single-bit mask *)
HasBit(v, mask) == (v \div mask) % 2 = 1
OrBit(v, mask) == IF HasBit(v, mask) THEN v ELSE (v + mask) % 256
AndNotBit(v, mask) == IF HasBit(v, mask) THEN v - mask ELSE v

----------------------------------------------------------------------------
(* External calls.  Every entry of `trace` is one of these records:        *)
(*   ev = "tx_param"        a = command, p = parameter bytes                *)
(*   ev = "tx_color"        a = command, p = <<payload length>>             *)
(*   ev = "delay"           a = milliseconds                                *)
(*   ev = "gpio_set_level"  a = pin,     p = <<level>>                      *)
(*   ev = "gpio_config" | "gpio_reset_pin"   a = pin                        *)
(*   ev = "calloc" | "free"                                                 *)
(* r is the call's result.  A step is the same record with `checked`: the  *)
(* caller returns the result at once when it is an error.                   *)

Step(ev, a, p, checked) == [ev |-> ev, a |-> a, p |-> p, checked |-> checked]
Event(s, r) == [ev |-> s.ev, a |-> s.a, p |-> s.p, r |-> r]
IsTx(s) == s.ev \in {"tx_param", "tx_color"}

(* Number of transport calls among the first n steps *)
RECURSIVE TxCount(_, _)
TxCount(steps, n) ==
    IF n = 0 THEN 0
    ELSE TxCount(steps, n - 1) + (IF IsTx(steps[n]) THEN 1 ELSE 0)

(* Runs the steps in order.  The k-th transport call answers io[k]; a      *)
(* checked call that answers an error ends the run with that error.        *)
RECURSIVE RunFrom(_, _, _, _)
RunFrom(steps, io, i, done) ==
    IF i > Len(steps) THEN [trace |-> done, ret |-> "ESP_OK"]
    ELSE LET s == steps[i]
             r == IF IsTx(s) THEN io[TxCount(steps, i)] ELSE "ESP_OK"
             ev == Event(s, r)
         IN IF s.checked /\ r # "ESP_OK"
            THEN [trace |-> Append(done, ev), ret |-> r]
            ELSE RunFrom(steps, io, i + 1, Append(done, ev))

Run(steps, io) == RunFrom(steps, io, 1, <<>>)

----------------------------------------------------------------------------
(* esp_lcd_new_panel_st7789 *)

Level(b) == IF b THEN 1 ELSE 0

(* The BGR / RGB switch: the madctl_val of the zeroed instance afterwards *)
CreateMadctl(rgb_endian) ==
    IF rgb_endian = "LCD_RGB_ENDIAN_RGB" THEN 0
    ELSE OrBit(0, LCD_CMD_BGR_BIT)

EndianSupported(rgb_endian) ==
    rgb_endian \in {"LCD_RGB_ENDIAN_RGB", "LCD_RGB_ENDIAN_BGR"}

(* The bits_per_pixel switch *)
DepthSupported(bits_per_pixel) == bits_per_pixel \in {16, 18}
CreateColmod(bits_per_pixel) == IF bits_per_pixel = 16 THEN 85 ELSE 102
(* Faulty variant: RGB666 taken as 18 bits of storage per pixel *)
CreateFbBitsPacked(bits_per_pixel) == IF bits_per_pixel = 16 THEN 16 ELSE 18
CreateFbBits(bits_per_pixel) == IF bits_per_pixel = 16 THEN 16 ELSE 24

(* Faulty variant: the instance is freed but the pin is not released *)
CreateCleanupNoRelease(allocated, pin) ==
    IF allocated THEN <<Event(Step("free", 0, <<>>, FALSE), "ESP_OK")>> ELSE <<>>

(* The err: label.  `allocated` is st7789 # NULL. *)
CreateCleanup(allocated, pin) ==
    IF allocated
    THEN (IF pin >= 0 THEN <<Event(Step("gpio_reset_pin", pin, <<>>, FALSE), "ESP_OK")>>
                      ELSE <<>>)
         \o <<Event(Step("free", 0, <<>>, FALSE), "ESP_OK")>>
    ELSE <<>>

(* c: [io, panel_dev_config, ret_panel : BOOLEAN (pointer not NULL),       *)
(*     reset_gpio_num, reset_active_high, rgb_endian, bits_per_pixel,      *)
(*     calloc_ok : BOOLEAN, gpio_config : GpioOutcomes]                    *)
(* Result: the calls made, the value returned and whether *ret_panel was   *)
(* set.                                                                    *)
NewPanel(c) ==
    LET callocEv(r) == Event(Step("calloc", 0, <<>>, FALSE), r)
        gpioEv == Event(Step("gpio_config", c.reset_gpio_num, <<>>, TRUE), c.gpio_config)
        cfgd == IF c.reset_gpio_num >= 0 THEN <<gpioEv>> ELSE <<>>
    IN  IF ~(c.io /\ c.panel_dev_config /\ c.ret_panel)
        THEN [trace |-> <<>>, ret |-> "ESP_ERR_INVALID_ARG", ok |-> FALSE]
        ELSE IF ~c.calloc_ok
        THEN [trace |-> <<callocEv("ESP_ERR_NO_MEM")>>,
              ret |-> "ESP_ERR_NO_MEM", ok |-> FALSE]
        ELSE IF c.reset_gpio_num >= 0 /\ c.gpio_config # "ESP_OK"
        THEN [trace |-> <<callocEv("ESP_OK")>> \o cfgd
                        \o CreateCleanup(TRUE, c.reset_gpio_num),
              ret |-> c.gpio_config, ok |-> FALSE]
        ELSE IF ~EndianSupported(c.rgb_endian) \/ ~DepthSupported(c.bits_per_pixel)
        THEN [trace |-> <<callocEv("ESP_OK")>> \o cfgd
                        \o CreateCleanup(TRUE, c.reset_gpio_num),
              ret |-> "ESP_ERR_NOT_SUPPORTED", ok |-> FALSE]
        ELSE [trace |-> <<callocEv("ESP_OK")>> \o cfgd, ret |-> "ESP_OK", ok |-> TRUE]

----------------------------------------------------------------------------
(* panel_st7789_del *)

DelSteps(pin) ==
    (IF pin >= 0 THEN <<Step("gpio_reset_pin", pin, <<>>, FALSE)>> ELSE <<>>)
    \o <<Step("free", 0, <<>>, FALSE)>>

(* Faulty variant: the inactive level is driven first *)
ResetStepsInverted(pin, level) ==
    IF pin >= 0
    THEN << Step("gpio_set_level", pin, <<Level(~level)>>, FALSE),
            Step("delay", 10, <<>>, FALSE),
            Step("gpio_set_level", pin, <<Level(level)>>, FALSE),
            Step("delay", 10, <<>>, FALSE) >>
    ELSE << Step("tx_param", LCD_CMD_SWRESET, <<>>, TRUE),
            Step("delay", 20, <<>>, FALSE) >>

(* panel_st7789_reset *)
ResetSteps(pin, level) ==
    IF pin >= 0
    THEN << Step("gpio_set_level", pin, <<Level(level)>>, FALSE),
            Step("delay", 10, <<>>, FALSE),
            Step("gpio_set_level", pin, <<Level(~level)>>, FALSE),
            Step("delay", 10, <<>>, FALSE) >>
    ELSE << Step("tx_param", LCD_CMD_SWRESET, <<>>, TRUE),
            Step("delay", 20, <<>>, FALSE) >>

(* panel_st7789_init; ANALOG_GAMMA is defined and GAMMA_CURVE is not, so   *)
(* the two positive / negative voltage gamma tables are what is compiled.  *)
GammaTable == <<240, 4, 8, 6, 8, 40, 64, 67, 96, 30, 28, 24, 53, 54>>

(* Faulty variant: the result of the COLMOD write is ignored *)
InitStepsColmodUnchecked(madctl, colmod) ==
    << Step("tx_param", LCD_CMD_SLPOUT, <<>>, TRUE),
       Step("delay", 100, <<>>, FALSE),
       Step("tx_param", LCD_CMD_MADCTL, <<madctl>>, TRUE),
       Step("tx_param", LCD_CMD_COLMOD, <<colmod>>, FALSE),
       Step("tx_param", 224, GammaTable, FALSE),
       Step("tx_param", 225, GammaTable, FALSE) >>

(* Faulty variant: COLMOD is written before MADCTL *)
InitStepsColmodFirst(madctl, colmod) ==
    << Step("tx_param", LCD_CMD_SLPOUT, <<>>, TRUE),
       Step("delay", 100, <<>>, FALSE),
       Step("tx_param", LCD_CMD_COLMOD, <<colmod>>, TRUE),
       Step("tx_param", LCD_CMD_MADCTL, <<madctl>>, TRUE),
       Step("tx_param", 224, GammaTable, FALSE),
       Step("tx_param", 225, GammaTable, FALSE) >>

InitSteps(madctl, colmod) ==
    << Step("tx_param", LCD_CMD_SLPOUT, <<>>, TRUE),
       Step("delay", 100, <<>>, FALSE),
       Step("tx_param", LCD_CMD_MADCTL, <<madctl>>, TRUE),
       Step("tx_param", LCD_CMD_COLMOD, <<colmod>>, TRUE),
       Step("tx_param", 224, GammaTable, FALSE),
       Step("tx_param", 225, GammaTable, FALSE) >>

(* panel_st7789_draw_bitmap *)
(* Faulty variant: the end address is sent as given, not end - 1 *)
AddrParamsInclusiveEnd(start, end) ==
    << (start \div 256) % 256, start % 256, (end \div 256) % 256, end % 256 >>

AddrParams(start, end) ==
    << (start \div 256) % 256, start % 256,
       ((end - 1) \div 256) % 256, (end - 1) % 256 >>

DrawLen(x_start, y_start, x_end, y_end, bpp) ==
    ((x_end - x_start) * (y_end - y_start) * bpp) \div 8

(* Faulty variant: the result of the RASET write is ignored *)
DrawStepsRasetUnchecked(x_start, y_start, x_end, y_end, xg, yg, bpp) ==
    LET xs == x_start + xg
        xe == x_end + xg
        ys == y_start + yg
        ye == y_end + yg
    IN << Step("tx_param", LCD_CMD_CASET, AddrParams(xs, xe), TRUE),
          Step("tx_param", LCD_CMD_RASET, AddrParams(ys, ye), FALSE),
          Step("tx_color", LCD_CMD_RAMWR, <<DrawLen(xs, ys, xe, ye, bpp)>>, TRUE) >>

DrawSteps(x_start, y_start, x_end, y_end, xg, yg, bpp) ==
    LET xs == x_start + xg
        xe == x_end + xg
        ys == y_start + yg
        ye == y_end + yg
    IN << Step("tx_param", LCD_CMD_CASET, AddrParams(xs, xe), TRUE),
          Step("tx_param", LCD_CMD_RASET, AddrParams(ys, ye), TRUE),
          Step("tx_color", LCD_CMD_RAMWR, <<DrawLen(xs, ys, xe, ye, bpp)>>, TRUE) >>

(* panel_st7789_invert_color, panel_st7789_disp_on_off *)
InvertSteps(invert_color_data) ==
    << Step("tx_param", IF invert_color_data THEN LCD_CMD_INVON ELSE LCD_CMD_INVOFF,
            <<>>, TRUE) >>

DispSteps(on_off) ==
    << Step("tx_param", IF on_off THEN LCD_CMD_DISPON ELSE LCD_CMD_DISPOFF,
            <<>>, TRUE) >>

(* panel_st7789_mirror, panel_st7789_swap_xy: the new madctl_val, then the write *)
(* Faulty variant: the mirror bits are set but never cleared *)
MirrorBitsSetOnly(madctl, mirror_x, mirror_y) ==
    LET m1 == IF mirror_x THEN OrBit(madctl, LCD_CMD_MX_BIT) ELSE madctl
    IN IF mirror_y THEN OrBit(m1, LCD_CMD_MY_BIT) ELSE m1

MirrorBits(madctl, mirror_x, mirror_y) ==
    LET m1 == IF mirror_x THEN OrBit(madctl, LCD_CMD_MX_BIT)
                          ELSE AndNotBit(madctl, LCD_CMD_MX_BIT)
    IN IF mirror_y THEN OrBit(m1, LCD_CMD_MY_BIT) ELSE AndNotBit(m1, LCD_CMD_MY_BIT)

(* Faulty variant: the byte is overwritten instead of one bit being changed *)
SwapBitsOverwrite(madctl, swap_axes) ==
    IF swap_axes THEN LCD_CMD_MV_BIT ELSE 0

SwapBits(madctl, swap_axes) ==
    IF swap_axes THEN OrBit(madctl, LCD_CMD_MV_BIT) ELSE AndNotBit(madctl, LCD_CMD_MV_BIT)

MadctlSteps(madctl) == << Step("tx_param", LCD_CMD_MADCTL, <<madctl>>, TRUE) >>

(* Faulty variant: a failed write restores the previous byte *)
PanelMirrorRollback(madctl, mirror_x, mirror_y, io) ==
    LET m == IF mirror_y
             THEN OrBit(IF mirror_x THEN OrBit(madctl, LCD_CMD_MX_BIT)
                                    ELSE AndNotBit(madctl, LCD_CMD_MX_BIT), LCD_CMD_MY_BIT)
             ELSE AndNotBit(IF mirror_x THEN OrBit(madctl, LCD_CMD_MX_BIT)
                                        ELSE AndNotBit(madctl, LCD_CMD_MX_BIT), LCD_CMD_MY_BIT)
        r == Run(<< Step("tx_param", LCD_CMD_MADCTL, <<m>>, TRUE) >>, io)
    IN [madctl_val |-> IF r.ret = "ESP_OK" THEN m ELSE madctl,
        trace |-> r.trace, ret |-> r.ret]

(* The field is assigned before the write and stays assigned when it fails *)
PanelMirror(madctl, mirror_x, mirror_y, io) ==
    LET m == MirrorBits(madctl, mirror_x, mirror_y)
        r == Run(MadctlSteps(m), io)
    IN [madctl_val |-> m, trace |-> r.trace, ret |-> r.ret]

PanelSwapXY(madctl, swap_axes, io) ==
    LET m == SwapBits(madctl, swap_axes)
        r == Run(MadctlSteps(m), io)
    IN [madctl_val |-> m, trace |-> r.trace, ret |-> r.ret]

----------------------------------------------------------------------------
(* The state machine *)

(* Answers of the transport to the calls of one operation *)
Failures(io) == Cardinality({k \in DOMAIN io : io[k] # "ESP_OK"})
Io1 == {io \in [1..1 -> Outcomes] : Failures(io) <= MaxFailures}
Io3 == {io \in [1..3 -> Outcomes] : Failures(io) <= MaxFailures}
Io5 == {io \in [1..5 -> Outcomes] : Failures(io) <= MaxFailures}

Count(tr, ev) == Cardinality({i \in 1..Len(tr) : tr[i].ev = ev})

(* The MADCTL writes of tr that the transport accepted, and the byte the    *)
(* controller holds after the calls of tr                                  *)
MadctlWrites(tr) == {i \in 1..Len(tr) : /\ tr[i].ev = "tx_param"
                                        /\ tr[i].a = LCD_CMD_MADCTL
                                        /\ tr[i].r = "ESP_OK"}
MadctlAccepted(tr) == MadctlWrites(tr) # {}
AcceptedAfter(tr, acc) ==
    IF ~MadctlAccepted(tr) THEN acc
    ELSE tr[CHOOSE i \in MadctlWrites(tr) : \A j \in MadctlWrites(tr) : j <= i].p[1]

NoConfig == [io |-> FALSE, panel_dev_config |-> FALSE, ret_panel |-> FALSE,
             reset_gpio_num |-> -1, reset_active_high |-> FALSE,
             rgb_endian |-> "LCD_RGB_ENDIAN_RGB", bits_per_pixel |-> 16,
             calloc_ok |-> FALSE, gpio_config |-> "ESP_OK"]

(* reset_active_high and the answer of gpio_config are read only with a pin *)
Configs ==
    {c \in [io : BOOLEAN, panel_dev_config : BOOLEAN, ret_panel : BOOLEAN,
            reset_gpio_num : Pins, reset_active_high : BOOLEAN,
            rgb_endian : {"LCD_RGB_ENDIAN_RGB", "LCD_RGB_ENDIAN_BGR", "other"},
            bits_per_pixel : {16, 18, 24},
            calloc_ok : BOOLEAN, gpio_config : GpioOutcomes] :
        c.reset_gpio_num < 0 => (~c.reset_active_high /\ c.gpio_config = "ESP_OK")}

Init ==
    /\ phase = "none"
    /\ reset_gpio_num = -1
    /\ reset_level = FALSE
    /\ x_gap = 0
    /\ y_gap = 0
    /\ fb_bits_per_pixel = 0
    /\ madctl_val = 0
    /\ colmod_cal = 0
    /\ cfg = NoConfig
    /\ last = [op |-> "none", arg |-> <<>>, ret |-> "ESP_OK"]
    /\ trace = <<>>
    /\ req = [mx |-> FALSE, my |-> FALSE, swap |-> FALSE, xg |-> 0, yg |-> 0]
    /\ accepted = -1
    /\ pre = [madctl_val |-> -1, accepted |-> -1]
    /\ n_gpio_reset_pin = 0
    /\ n_free = 0

(* What every call records *)
Called(op, arg, res) ==
    /\ last' = [op |-> op, arg |-> arg, ret |-> res.ret]
    /\ trace' = res.trace
    /\ accepted' = AcceptedAfter(res.trace, accepted)
    /\ pre' = IF MadctlAccepted(res.trace)
              THEN [madctl_val |-> madctl_val, accepted |-> accepted]
              ELSE [madctl_val |-> -1, accepted |-> -1]
    /\ n_gpio_reset_pin' = n_gpio_reset_pin + Count(res.trace, "gpio_reset_pin")
    /\ n_free' = n_free + Count(res.trace, "free")

Create ==
    /\ phase = "none"
    /\ \E c \in Configs :
         LET res == NewPanel(c)
         IN /\ Called("create", <<>>, res)
            /\ cfg' = c
            /\ IF res.ok
               THEN /\ phase' = "live"
                    /\ madctl_val' = CreateMadctl(c.rgb_endian)
                    /\ colmod_cal' = CreateColmod(c.bits_per_pixel)
                    /\ fb_bits_per_pixel' = CreateFbBits(c.bits_per_pixel)
                    /\ reset_gpio_num' = c.reset_gpio_num
                    /\ reset_level' = c.reset_active_high
               ELSE /\ phase' = "failed"
                    /\ UNCHANGED <<madctl_val, colmod_cal, fb_bits_per_pixel,
                                   reset_gpio_num, reset_level>>
    /\ UNCHANGED <<x_gap, y_gap, req>>

Delete ==
    /\ phase = "live"
    /\ Called("del", <<>>, Run(DelSteps(reset_gpio_num), <<>>))
    /\ phase' = "deleted"
    /\ UNCHANGED <<reset_gpio_num, reset_level, x_gap, y_gap, fb_bits_per_pixel,
                   madctl_val, colmod_cal, cfg, req>>

Reset ==
    /\ phase = "live"
    /\ \E io \in Io1 :
         Called("reset", <<>>, Run(ResetSteps(reset_gpio_num, reset_level), io))
    /\ UNCHANGED <<phase, reset_gpio_num, reset_level, x_gap, y_gap,
                   fb_bits_per_pixel, madctl_val, colmod_cal, cfg, req>>

Initialize ==
    /\ phase = "live"
    /\ \E io \in Io5 :
         Called("init", <<>>, Run(InitSteps(madctl_val, colmod_cal), io))
    /\ UNCHANGED <<phase, reset_gpio_num, reset_level, x_gap, y_gap,
                   fb_bits_per_pixel, madctl_val, colmod_cal, cfg, req>>

DrawBitmap ==
    /\ phase = "live"
    /\ \E w \in Windows, io \in Io3 :
         /\ w[1] < w[3] /\ w[2] < w[4]       \* the assert of line 300
         /\ Called("draw_bitmap", w,
                   Run(DrawSteps(w[1], w[2], w[3], w[4], x_gap, y_gap,
                                 fb_bits_per_pixel), io))
    /\ UNCHANGED <<phase, reset_gpio_num, reset_level, x_gap, y_gap,
                   fb_bits_per_pixel, madctl_val, colmod_cal, cfg, req>>

InvertColor ==
    /\ phase = "live"
    /\ \E b \in BOOLEAN, io \in Io1 :
         Called("invert_color", <<b>>, Run(InvertSteps(b), io))
    /\ UNCHANGED <<phase, reset_gpio_num, reset_level, x_gap, y_gap,
                   fb_bits_per_pixel, madctl_val, colmod_cal, cfg, req>>

DisplayOnOff ==
    /\ phase = "live"
    /\ \E b \in BOOLEAN, io \in Io1 :
         Called("disp_on_off", <<b>>, Run(DispSteps(b), io))
    /\ UNCHANGED <<phase, reset_gpio_num, reset_level, x_gap, y_gap,
                   fb_bits_per_pixel, madctl_val, colmod_cal, cfg, req>>

Mirror ==
    /\ phase = "live"
    /\ \E mx \in BOOLEAN, my \in BOOLEAN, io \in Io1 :
         LET res == PanelMirror(madctl_val, mx, my, io)
         IN /\ madctl_val' = res.madctl_val
            /\ Called("mirror", <<mx, my>>, res)
            /\ req' = [req EXCEPT !.mx = mx, !.my = my]
    /\ UNCHANGED <<phase, reset_gpio_num, reset_level, x_gap, y_gap,
                   fb_bits_per_pixel, colmod_cal, cfg>>

SwapXY ==
    /\ phase = "live"
    /\ \E sw \in BOOLEAN, io \in Io1 :
         LET res == PanelSwapXY(madctl_val, sw, io)
         IN /\ madctl_val' = res.madctl_val
            /\ Called("swap_xy", <<sw>>, res)
            /\ req' = [req EXCEPT !.swap = sw]
    /\ UNCHANGED <<phase, reset_gpio_num, reset_level, x_gap, y_gap,
                   fb_bits_per_pixel, colmod_cal, cfg>>

SetGapTo(gx, gy) == [x_gap |-> gx, y_gap |-> gy]

SetGap ==
    /\ phase = "live"
    /\ \E g \in Gaps :
         /\ x_gap' = SetGapTo(g[1], g[2]).x_gap
         /\ y_gap' = SetGapTo(g[1], g[2]).y_gap
         /\ Called("set_gap", g, [trace |-> <<>>, ret |-> "ESP_OK"])
         /\ req' = [req EXCEPT !.xg = g[1], !.yg = g[2]]
    /\ UNCHANGED <<phase, reset_gpio_num, reset_level, fb_bits_per_pixel,
                   madctl_val, colmod_cal, cfg>>

Next ==
    \/ Create
    \/ Delete
    \/ Reset
    \/ Initialize
    \/ DrawBitmap
    \/ InvertColor
    \/ DisplayOnOff
    \/ Mirror
    \/ SwapXY
    \/ SetGap

Spec == Init /\ [][Next]_vars

----------------------------------------------------------------------------
(* Properties.  They are stated with the numbers of the controller's       *)
(* data sheet, not with the names the handlers are written with.           *)

Bit(b, n) == (b \div (2 ^ n)) % 2 = 1
Hi(v) == v \div 256
Lo(v) == v % 256
Tx(cmd, params, r) == [ev |-> "tx_param", a |-> cmd, p |-> params, r |-> r]
Color(cmd, len, r) == [ev |-> "tx_color", a |-> cmd, p |-> <<len>>, r |-> r]
Delay(ms) == [ev |-> "delay", a |-> ms, p |-> <<>>, r |-> "ESP_OK"]
SetLevel(pin, lvl) == [ev |-> "gpio_set_level", a |-> pin, p |-> <<lvl>>, r |-> "ESP_OK"]

IsMadctlWrite(e) == e.ev = "tx_param" /\ e.a = 54
Bgr == cfg.rgb_endian = "LCD_RGB_ENDIAN_BGR"

(* The byte made of the color order given at Create and of the most recent *)
(* Mirror and SwapXY arguments, whether or not those calls succeeded       *)
RequestedByte ==
    (IF Bgr THEN 8 ELSE 0) + (IF req.swap THEN 32 ELSE 0)
    + (IF req.mx THEN 64 ELSE 0) + (IF req.my THEN 128 ELSE 0)

(* Create got as far as the two configuration switches *)
ReachedSwitches ==
    /\ cfg.io /\ cfg.panel_dev_config /\ cfg.ret_panel
    /\ cfg.calloc_ok
    /\ (cfg.reset_gpio_num >= 0 => cfg.gpio_config = "ESP_OK")

Allocated == cfg.io /\ cfg.panel_dev_config /\ cfg.ret_panel /\ cfg.calloc_ok

(* C1: every Mirror and SwapXY call writes command 0x36 with one byte whose *)
(* bit6 / bit7 are the mx / my of the most recent Mirror and whose bit5 is  *)
(* the s of the most recent SwapXY (0 when there was none), so Mirror       *)
(* leaves bit5 and SwapXY leaves bit6 and bit7 as they were, and            *)
(* Mirror(true,false) with SwapXY(true) gives bit6 and bit5 set and bit7    *)
(* clear in either order.                                                   *)
C1_MirrorSwapByte ==
    (phase = "live" /\ last.op \in {"mirror", "swap_xy"}) =>
        /\ Len(trace) = 1
        /\ IsMadctlWrite(trace[1])
        /\ Len(trace[1].p) = 1
        /\ Bit(trace[1].p[1], 6) = req.mx
        /\ Bit(trace[1].p[1], 7) = req.my
        /\ Bit(trace[1].p[1], 5) = req.swap
        /\ (last.op = "mirror" => req.mx = last.arg[1] /\ req.my = last.arg[2])
        /\ (last.op = "swap_xy" => req.swap = last.arg[1])
        /\ ((req.mx /\ ~req.my /\ req.swap) => trace[1].p[1] \in {96, 104})

C1_Witness ==
    /\ phase = "live" /\ last.op = "swap_xy" /\ last.arg = <<TRUE>>
    /\ req.mx /\ ~req.my
    /\ ~Bgr
    /\ trace[1].p = <<96>>

(* C2: Create with RGB leaves bit3 of the stored byte clear, with BGR set;  *)
(* another color order makes Create fail (with ESP_ERR_NOT_SUPPORTED once   *)
(* the arguments, the allocation and the GPIO configuration were fine);     *)
(* afterwards bit3 of the stored byte and of every 0x36 parameter sent is   *)
(* the value chosen at Create, whatever calls were made.                    *)
C2_BgrBitPreserved ==
    /\ phase = "live" =>
        /\ cfg.rgb_endian \in {"LCD_RGB_ENDIAN_RGB", "LCD_RGB_ENDIAN_BGR"}
        /\ Bit(madctl_val, 3) = Bgr
        /\ \A i \in 1..Len(trace) :
              IsMadctlWrite(trace[i]) => Bit(trace[i].p[1], 3) = Bgr
    /\ (phase # "none" /\ cfg.rgb_endian = "other") =>
        /\ phase = "failed"
        /\ (ReachedSwitches => last.ret = "ESP_ERR_NOT_SUPPORTED")

C2_Witness ==
    /\ phase = "live" /\ Bgr
    /\ last.op = "mirror" /\ last.arg = <<FALSE, TRUE>> /\ req.swap
    /\ trace[1].p = <<168>>

(* C3: a DrawBitmap whose transport writes all succeed sends exactly 0x2A   *)
(* with [hi,lo] of xStart+gx and of xEnd+gx-1, then 0x2B with [hi,lo] of    *)
(* yStart+gy and of yEnd+gy-1, then the pixel write 0x2C of                 *)
(* (xEnd-xStart)*(yEnd-yStart)*bitsPerPixel/8 bytes, gx and gy being the    *)
(* arguments of the most recent SetGap (0 when there was none); 0,0,10,20   *)
(* at 16 bpp without gaps gives [0,0,0,9], [0,0,0,19] and 400 bytes.        *)
C3_DrawBitmapWrites ==
    (last.op = "draw_bitmap" /\ last.ret = "ESP_OK") =>
        LET xs == last.arg[1]
            ys == last.arg[2]
            xe == last.arg[3]
            ye == last.arg[4]
        IN /\ trace = << Tx(42, <<Hi(xs + req.xg), Lo(xs + req.xg),
                                  Hi(xe + req.xg - 1), Lo(xe + req.xg - 1)>>, "ESP_OK"),
                         Tx(43, <<Hi(ys + req.yg), Lo(ys + req.yg),
                                  Hi(ye + req.yg - 1), Lo(ye + req.yg - 1)>>, "ESP_OK"),
                         Color(44, ((xe - xs) * (ye - ys) * fb_bits_per_pixel) \div 8,
                               "ESP_OK") >>
           /\ (last.arg = <<0, 0, 10, 20>> /\ fb_bits_per_pixel = 16
               /\ req.xg = 0 /\ req.yg = 0) =>
                  /\ trace[1].p = <<0, 0, 0, 9>>
                  /\ trace[2].p = <<0, 0, 0, 19>>
                  /\ trace[3].p = <<400>>

C3_Witness ==
    /\ last.op = "draw_bitmap" /\ last.ret = "ESP_OK"
    /\ last.arg = <<10, 20, MaxCoord, MaxCoord>>
    /\ req.xg = MaxXGap /\ req.yg = MaxYGap
    /\ trace[1].p[3] = 1
    /\ trace[2].p[1] = 0 /\ trace[2].p[2] = 20 + MaxYGap

(* C4, as stated: whichever transport write of Initialize fails, no later   *)
(* write is issued and Initialize returns that failure.                     *)
C4_AnyFailureAborts ==
    last.op = "init" =>
        \A i \in 1..Len(trace) :
            (trace[i].ev = "tx_param" /\ trace[i].r # "ESP_OK") =>
                (i = Len(trace) /\ last.ret = trace[i].r)

(* C4, amended: a failure of the 0x11, 0x36 or 0x3A write ends Initialize   *)
(* at that write and is returned; the results of the two gamma writes 0xE0  *)
(* and 0xE1 that follow are ignored: both are issued and Initialize returns *)
(* success once the first three writes succeeded.                           *)
C4_CheckedFailureAborts ==
    last.op = "init" =>
        /\ \A i \in 1..Len(trace) :
              (trace[i].ev = "tx_param" /\ trace[i].r # "ESP_OK"
               /\ trace[i].a \in {17, 54, 58}) =>
                  (i = Len(trace) /\ last.ret = trace[i].r)
        /\ (\A i \in 1..Len(trace) :
              (trace[i].ev = "tx_param" /\ trace[i].r # "ESP_OK") =>
                  trace[i].a \in {224, 225}) =>
              /\ last.ret = "ESP_OK"
              /\ Len(trace) = 6
              /\ trace[5].a = 224 /\ trace[6].a = 225

C4_Witness ==
    /\ last.op = "init" /\ last.ret = "ESP_OK"
    /\ Len(trace) = 6
    /\ trace[5].a = 224 /\ trace[5].r # "ESP_OK"

(* C5: Reset with a reset pin given at Create drives the pin to the active  *)
(* level, waits 10 ms, drives it to the other level, waits 10 ms, writes    *)
(* nothing to the transport and returns success; without a pin it sends     *)
(* 0x01 without parameters and waits 20 ms, or, when that write fails,      *)
(* returns the error with no delay and no GPIO call.                        *)
C5_ResetPaths ==
    last.op = "reset" =>
        IF cfg.reset_gpio_num >= 0
        THEN /\ trace = << SetLevel(cfg.reset_gpio_num,
                                    IF cfg.reset_active_high THEN 1 ELSE 0),
                           Delay(10),
                           SetLevel(cfg.reset_gpio_num,
                                    IF cfg.reset_active_high THEN 0 ELSE 1),
                           Delay(10) >>
             /\ last.ret = "ESP_OK"
        ELSE \/ /\ trace = << Tx(1, <<>>, "ESP_OK"), Delay(20) >>
                /\ last.ret = "ESP_OK"
             \/ /\ Len(trace) = 1
                /\ trace[1].ev = "tx_param" /\ trace[1].a = 1 /\ trace[1].p = <<>>
                /\ trace[1].r # "ESP_OK"
                /\ last.ret = trace[1].r

C5_Witness ==
    /\ last.op = "reset"
    /\ cfg.reset_gpio_num >= 0 /\ cfg.reset_active_high
    /\ Len(trace) = 4 /\ trace[1].p = <<1>> /\ trace[3].p = <<0>>

(* C6: the pin is released at most once and the instance freed at most     *)
(* once; a Create that fails after the allocation releases the pin (when    *)
(* one was given) and frees the instance once and returns no handle; a      *)
(* Create that fails on a missing argument makes no call at all; a live     *)
(* instance has released and freed nothing; Delete releases the pin (when   *)
(* one was given) once, then frees once, and returns success; without a pin *)
(* no release is ever made.                                                 *)
C6_ReleaseAndFreeOnce ==
    LET pinned == IF cfg.reset_gpio_num >= 0 THEN 1 ELSE 0
    IN /\ n_free <= 1 /\ n_gpio_reset_pin <= 1
       /\ cfg.reset_gpio_num < 0 => n_gpio_reset_pin = 0
       /\ phase = "live" => (n_free = 0 /\ n_gpio_reset_pin = 0)
       /\ phase = "deleted" =>
             /\ n_free = 1 /\ n_gpio_reset_pin = pinned
             /\ last.op = "del" /\ last.ret = "ESP_OK"
             /\ trace[Len(trace)].ev = "free"
             /\ Len(trace) = 1 + pinned
       /\ phase = "failed" =>
             /\ last.ret # "ESP_OK"
             /\ IF Allocated
                THEN /\ n_free = 1 /\ n_gpio_reset_pin = pinned
                     /\ trace[Len(trace)].ev = "free"
                ELSE n_free = 0 /\ n_gpio_reset_pin = 0
             /\ ~(cfg.io /\ cfg.panel_dev_config /\ cfg.ret_panel) => trace = <<>>

C6_Witness ==
    /\ phase = "failed"
    /\ cfg.reset_gpio_num >= 0 /\ cfg.gpio_config = "ESP_OK"
    /\ cfg.rgb_endian = "other"
    /\ n_free = 1 /\ n_gpio_reset_pin = 1

(* C7: bit depth 16 stores code 0x55 and 16 bits per pixel, 18 stores 0x66  *)
(* and 24; another depth makes Create fail (with ESP_ERR_NOT_SUPPORTED once *)
(* the arguments, the allocation, the GPIO configuration and the color      *)
(* order were fine); no call changes the pair: every 0x3A write of          *)
(* Initialize carries the code and every pixel write of DrawBitmap is sized *)
(* with the bits per pixel.                                                 *)
C7_PixelFormat ==
    LET code == IF cfg.bits_per_pixel = 16 THEN 85 ELSE 102
        bits == IF cfg.bits_per_pixel = 16 THEN 16 ELSE 24
    IN /\ phase = "live" =>
            /\ cfg.bits_per_pixel \in {16, 18}
            /\ colmod_cal = code
            /\ fb_bits_per_pixel = bits
            /\ last.op = "init" =>
                  /\ \A i \in 1..Len(trace) :
                        (trace[i].ev = "tx_param" /\ trace[i].a = 58) =>
                            trace[i].p = <<code>>
                  /\ (Len(trace) >= 4 => trace[4].a = 58)
            /\ (last.op = "draw_bitmap" /\ Len(trace) = 3) =>
                  trace[3].p[1] * 8 = (last.arg[3] - last.arg[1])
                                      * (last.arg[4] - last.arg[2]) * bits
       /\ (phase # "none" /\ cfg.bits_per_pixel \notin {16, 18}) =>
            /\ phase = "failed"
            /\ (ReachedSwitches => last.ret = "ESP_ERR_NOT_SUPPORTED")

C7_Witness ==
    /\ phase = "live" /\ cfg.bits_per_pixel = 18
    /\ last.op = "draw_bitmap" /\ last.arg = <<0, 0, 10, 20>>
    /\ Len(trace) = 3 /\ trace[3].p = <<600>>

(* C8: a DrawBitmap in which a transport write failed stopped at that      *)
(* write: the writes made are a beginning of 0x2A, 0x2B, 0x2C, each made    *)
(* once, only the last of them failed and its error is the one returned;    *)
(* the stored gaps, memory-access-control byte and pixel format are what    *)
(* they were.                                                               *)
C8_DrawAbortsOnFailure ==
    (last.op = "draw_bitmap"
     /\ (last.ret # "ESP_OK" \/ \E i \in 1..Len(trace) : trace[i].r # "ESP_OK")) =>
        /\ last.ret # "ESP_OK"
        /\ Len(trace) \in 1..3
        /\ \A i \in 1..Len(trace) : trace[i].a = <<42, 43, 44>>[i]
        /\ \A i \in 1..(Len(trace) - 1) : trace[i].r = "ESP_OK"
        /\ trace[Len(trace)].r = last.ret
        /\ x_gap = req.xg /\ y_gap = req.yg
        /\ madctl_val = RequestedByte
        /\ colmod_cal = (IF cfg.bits_per_pixel = 16 THEN 85 ELSE 102)
        /\ fb_bits_per_pixel = (IF cfg.bits_per_pixel = 16 THEN 16 ELSE 24)

C8_Witness ==
    /\ last.op = "draw_bitmap" /\ last.ret # "ESP_OK"
    /\ Len(trace) = 2 /\ trace[2].a = 43 /\ trace[2].r # "ESP_OK"
    /\ req.xg = MaxXGap /\ req.swap

(* C9: Initialize sends 0x11, waits 100 ms, sends 0x36 with the stored      *)
(* byte, then 0x3A with the stored pixel-format code; no call other than    *)
(* Mirror and SwapXY changes the stored byte, so it always is the color     *)
(* order of Create with the bits of the most recent Mirror and SwapXY, and  *)
(* that is what the 0x36 write of Initialize carries.                       *)
C9_InitSequence ==
    /\ phase = "live" => madctl_val = RequestedByte
    /\ last.op = "init" =>
        /\ Len(trace) >= 1
        /\ trace[1].ev = "tx_param" /\ trace[1].a = 17 /\ trace[1].p = <<>>
        /\ trace[1].r = "ESP_OK" =>
              /\ Len(trace) >= 3
              /\ trace[2] = Delay(100)
              /\ trace[3].ev = "tx_param" /\ trace[3].a = 54
              /\ trace[3].p = <<RequestedByte>>
              /\ trace[3].r = "ESP_OK" =>
                    /\ Len(trace) >= 4
                    /\ trace[4].ev = "tx_param" /\ trace[4].a = 58
                    /\ trace[4].p = <<colmod_cal>>

C9_Witness ==
    /\ last.op = "init" /\ last.ret = "ESP_OK"
    /\ req.mx /\ req.swap /\ ~req.my /\ Bgr
    /\ accepted = 104
    /\ trace[3].p = <<104>> /\ trace[4].r = "ESP_OK"

(* A bit requested by a failed call: the stored byte had it different from *)
(* the byte the controller held when the most recent call began            *)
Unsent(n) == pre.accepted >= 0 /\ Bit(pre.madctl_val, n) # Bit(pre.accepted, n)

(* The byte of the 0x36 write that the most recent call got accepted *)
SentByte == accepted

FailedWriteKeepsBits ==
    /\ (last.op = "mirror" /\ last.ret # "ESP_OK") =>
          /\ Bit(madctl_val, 6) = last.arg[1]
          /\ Bit(madctl_val, 7) = last.arg[2]
          /\ trace = << Tx(54, <<madctl_val>>, last.ret) >>
    /\ (last.op = "swap_xy" /\ last.ret # "ESP_OK") =>
          /\ Bit(madctl_val, 5) = last.arg[1]
          /\ trace = << Tx(54, <<madctl_val>>, last.ret) >>

(* C10, as stated: a Mirror or SwapXY whose 0x36 write fails returns the    *)
(* error and leaves the requested bits in the stored byte, and the next     *)
(* Mirror, SwapXY or Initialize whose 0x36 write succeeds sends a byte that *)
(* has the bits the failed call requested.                                  *)
C10_NextWriteHasFailedBits ==
    /\ FailedWriteKeepsBits
    /\ (phase = "live" /\ last.op \in {"mirror", "swap_xy", "init"}
        /\ MadctlAccepted(trace)) =>
          \A n \in {5, 6, 7} :
              Unsent(n) => Bit(SentByte, n) = Bit(pre.madctl_val, n)

(* C10, amended: a Mirror or SwapXY whose 0x36 write fails returns the      *)
(* error and leaves the requested bits in the stored byte; the next         *)
(* Mirror, SwapXY or Initialize whose 0x36 write succeeds sends the stored  *)
(* byte, which has the bits the failed call requested except those the new  *)
(* call sets itself (bit6 and bit7 in Mirror, bit5 in SwapXY).              *)
C10_NoRollback ==
    /\ FailedWriteKeepsBits
    /\ (phase = "live" /\ last.op \in {"mirror", "swap_xy", "init"}
        /\ MadctlAccepted(trace)) =>
          /\ \A i \in MadctlWrites(trace) : trace[i].p = <<madctl_val>>
          /\ SentByte = madctl_val
          /\ \A n \in {5, 6, 7} :
                (/\ Unsent(n)
                 /\ ~(last.op = "mirror" /\ n \in {6, 7})
                 /\ ~(last.op = "swap_xy" /\ n = 5)) =>
                    Bit(SentByte, n) = Bit(pre.madctl_val, n)

C10_Witness ==
    /\ last.op = "swap_xy" /\ last.ret = "ESP_OK"
    /\ Unsent(6) /\ Bit(pre.madctl_val, 6)
    /\ trace[1].p = <<96>>

====
